---- MODULE Spec2Model ----
(***************************************************************************)
(* Model of src/app.py: the antenna radiation pattern pipeline.            *)
(*                                                                         *)
(*   parameters -> pattern formula (dipole_pattern / ula_array_pattern /   *)
(*   cos^3) -> np.nan_to_num -> division by the maximum ->                 *)
(*   calculate_gaussian_metrics (window, curve_fit, derived metrics) ->    *)
(*   fallback metrics when it returned None.                               *)
(*                                                                         *)
(* Numbers.  np.float64 values are modelled in fixed point: a gain or a    *)
(* cosine v stands for v / Scale, an angle in radians r for r / AngScale,  *)
(* an angle in degrees d for d / DegScale.  The three IEEE specials are    *)
(* kept apart from the finite values (NaN, PosInf, NegInf) and the         *)
(* arithmetic that can produce or meet them (FDiv, NanToNum, NpMax,        *)
(* NpMin, NpArgmax) treats them as numpy does.  MaxFloat stands for        *)
(* sys.float_info.max, the value np.nan_to_num puts in place of +inf.      *)
(* The guard epsilon = 1e-9 of the source is one unit of the grid (Eps):   *)
(* as in the source it is the smallest step the denominators can take, so  *)
(* a denominator is 0 exactly when the sine is -epsilon.                   *)
(***************************************************************************)
EXTENDS Integers, Sequences, FiniteSets

\* ---------------------------------------------------------------- numbers

\* gains, sines, cosines: units of 1/1000
Scale == 1000
\* angles in radians: units of 1e-4 rad
AngScale == 10000
\* angles in degrees: units of 0.01 degree
DegScale == 100
\* sys.float_info.max: the largest finite value of the grid
MaxFloat == 1000000
PosInf == MaxFloat + 1
NegInf == 0 - (MaxFloat + 1)
\* NaN is kept above PosInf: np.max and np.argmax treat a NaN as the maximum
NaN == MaxFloat + 2

IsNaN(x) == x = NaN
IsInf(x) == x = PosInf \/ x = NegInf
IsFinite(x) == ~IsNaN(x) /\ ~IsInf(x)

Abs(x) == IF x < 0 THEN 0 - x ELSE x
Sign(x) == IF x < 0 THEN 0 - 1 ELSE IF x > 0 THEN 1 ELSE 0

\* a / b rounded to the nearest integer (b # 0), both signs
Rnd(a, b) ==
    LET n == Abs(a)
        d == Abs(b)
        q == (2 * n + d) \div (2 * d)
    IN  IF Sign(a) * Sign(b) < 0 THEN 0 - q ELSE q

\* a finite result that leaves the range of the floats overflows to +-inf
Overflow(x) == IF x > MaxFloat THEN PosInf ELSE IF x < 0 - MaxFloat THEN NegInf ELSE x

\* IEEE division of two values of the gain grid (numpy: no exception,
\* x/0 = +-inf, 0/0 = nan, nan propagates)
FDiv(a, b) ==
    IF IsNaN(a) \/ IsNaN(b) THEN NaN
    ELSE IF IsInf(a) /\ IsInf(b) THEN NaN
    ELSE IF IsInf(a) THEN (IF Sign(a) * Sign(b) < 0 THEN NegInf ELSE PosInf)
    ELSE IF IsInf(b) THEN 0
    ELSE IF b = 0 THEN (IF a = 0 THEN NaN ELSE IF a > 0 THEN PosInf ELSE NegInf)
    ELSE LET n == Abs(a)
             d == Abs(b)
             q == (n \div d) * Scale + ((n % d) * Scale + d \div 2) \div d
         IN  Overflow(IF Sign(a) * Sign(b) < 0 THEN 0 - q ELSE q)

\* np.abs
FAbs(x) == IF IsNaN(x) THEN NaN ELSE IF IsInf(x) THEN PosInf ELSE Abs(x)

\* ------------------------------------------------------------ trigonometry

\* np.pi and its multiples, in units of 1/AngScale rad
Pi == 31416
TwoPi == 2 * Pi
HalfPi == Pi \div 2

\* cos z for 0 <= z <= pi/2 (z in 1/AngScale rad), in units of 1/AngScale:
\* 1 - z^2/2! + z^4/4! - z^6/6! + z^8/8!
CosSeries(z) ==
    LET z2 == (z * z) \div AngScale
        t2 == z2 \div 2
        t4 == ((t2 * z2) \div AngScale) \div 12
        t6 == ((t4 * z2) \div AngScale) \div 30
        t8 == ((t6 * z2) \div AngScale) \div 56
    IN  AngScale - t2 + t4 - t6 + t8

\* sin z for 0 <= z <= pi/2: z - z^3/3! + z^5/5! - z^7/7! + z^9/9!
SinSeries(z) ==
    LET z2 == (z * z) \div AngScale
        t3 == ((z * z2) \div AngScale) \div 6
        t5 == ((t3 * z2) \div AngScale) \div 20
        t7 == ((t5 * z2) \div AngScale) \div 42
        t9 == ((t7 * z2) \div AngScale) \div 72
    IN  z - t3 + t5 - t7 + t9

\* np.cos of an angle x (1/AngScale rad), in units of 1/Scale; even in x,
\* Cos(0) = Scale and Cos(Pi) = -Scale exactly, as np.cos(0.0) and np.cos(np.pi)
Cos(x) ==
    LET y == Abs(x) % TwoPi
        v == IF y <= HalfPi THEN CosSeries(y)
             ELSE IF y <= Pi THEN 0 - CosSeries(Pi - y)
             ELSE IF y <= Pi + HalfPi THEN 0 - CosSeries(y - Pi)
             ELSE CosSeries(TwoPi - y)
    IN  Rnd(v, AngScale \div Scale)

\* np.sin of an angle x (1/AngScale rad), in units of 1/Scale; odd in x
Sin(x) ==
    LET y == Abs(x) % TwoPi
        v == IF y <= HalfPi THEN SinSeries(y)
             ELSE IF y <= Pi THEN SinSeries(Pi - y)
             ELSE IF y <= Pi + HalfPi THEN 0 - SinSeries(y - Pi)
             ELSE 0 - SinSeries(TwoPi - y)
    IN  Sign(x) * Rnd(v, AngScale \div Scale)

\* ------------------------------------------------------------------ numpy

\* np.linspace(start, stop, num): num evenly spaced samples, both ends included
\* (sample i of the model is numpy's index i - 1)
Linspace(start, stop, num) ==
    [i \in 1..num |-> IF num = 1 THEN start
                      ELSE start + Rnd((stop - start) * (i - 1), num - 1)]

\* np.rad2deg: radians (1/AngScale) to degrees (1/DegScale)
Rad2Deg(r) == Rnd(r * (180 * DegScale), Pi)

\* np.deg2rad: degrees (1/DegScale) to radians (1/AngScale)
Deg2Rad(d) == Rnd(d * Pi, 180 * DegScale)

\* NanToNum with a fault: only nan is replaced, an inf is left in place
NanToNumKeepsInf(x) == IF IsNaN(x) THEN 0 ELSE x

\* np.nan_to_num with its defaults: nan -> 0.0, +inf -> the largest finite
\* float, -inf -> the most negative finite float
NanToNum(x) ==
    IF IsNaN(x) THEN 0
    ELSE IF x = PosInf THEN MaxFloat
    ELSE IF x = NegInf THEN 0 - MaxFloat
    ELSE x

NanToNumSeq(s) == [i \in DOMAIN s |-> NanToNum(s[i])]

Range(s) == {s[i] : i \in DOMAIN s}

\* np.max of a non-empty array: nan if any sample is nan, else the largest
\* (NaN is the largest value of the encoding)
NpMax(s) == CHOOSE m \in Range(s) : \A i \in DOMAIN s : s[i] <= m

\* np.min of a non-empty array: nan if any sample is nan, else the smallest
NpMin(s) ==
    IF \E i \in DOMAIN s : IsNaN(s[i])
    THEN NaN
    ELSE CHOOSE m \in Range(s) : \A i \in DOMAIN s : m <= s[i]

\* np.argmax: the first index of the maximum (of the first nan, if any)
NpArgmax(s) ==
    CHOOSE i \in DOMAIN s :
        /\ \A j \in DOMAIN s : s[j] <= s[i]
        /\ \A j \in 1..(i - 1) : s[j] # s[i]

\* array / scalar
DivSeq(s, m) == [i \in DOMAIN s |-> FDiv(s[i], m)]

\* ------------------------------------------------------- pattern formulas

\* epsilon = 1e-9, the guard added to the denominators: one unit of the grid
Eps == 1

\* lines 160-162: |cos(k L/2 cos(theta)) - cos(k L/2)| / (sin(theta) + epsilon),
\* before np.nan_to_num.  length_lambda in 1/Scale wavelengths.
DipoleFormula(length_lambda, theta) ==
    LET kl2 == Rnd(TwoPi * length_lambda, 2 * Scale)
        c0 == Cos(kl2)
    IN  [i \in DOMAIN theta |->
            LET numerator == FAbs(Cos(Rnd(kl2 * Cos(theta[i]), Scale)) - c0)
                denominator == Sin(theta[i]) + Eps
            IN  FDiv(numerator, denominator)]

\* dipole_pattern returns np.nan_to_num(pattern)
dipole_pattern(length_lambda, theta) ==
    NanToNumSeq(DipoleFormula(length_lambda, theta))

\* lines 166-169: af = |sin(N psi/2) / (sin(psi/2) + 1e-9)| with
\* psi = 2 pi d cos(theta) + deg2rad(phase), before np.nan_to_num.
\* spacing in 1/Scale wavelengths, phase_deg in 1/DegScale degrees.
UlaFormula(num_elements, spacing, phase_deg, theta) ==
    LET twoPiD == Rnd(TwoPi * spacing, Scale)
        phase == Deg2Rad(phase_deg)
    IN  [i \in DOMAIN theta |->
            LET psi == Rnd(twoPiD * Cos(theta[i]), Scale) + phase
                numerator == Sin(Rnd(num_elements * psi, 2))
                denominator == Sin(Rnd(psi, 2)) + Eps
            IN  FAbs(FDiv(numerator, denominator))]

\* ula_array_pattern: af = np.nan_to_num(af); return af / np.max(af)
ula_array_pattern(num_elements, spacing, phase_deg, theta) ==
    LET af == NanToNumSeq(UlaFormula(num_elements, spacing, phase_deg, theta))
    IN  DivSeq(af, NpMax(af))

\* line 273: np.abs(np.cos(theta) ** 3)
GenericFormula(theta) ==
    [i \in DOMAIN theta |->
        LET c == Cos(theta[i])
        IN  Abs(Rnd(Rnd(c * c, Scale) * c, Scale))]

\* ----------------------------------------------------- metric extraction

\* WindowDeg with a fault: a window of 1 degree
WindowDegNarrow == 1 * DegScale

\* window_deg = 20 (line 178), in 1/DegScale degrees
WindowDeg == 20 * DegScale

\* len(indices) < 5 (line 180)
MinFitSamples == 5

\* the initial sigma of the fit, 5.0 degrees (line 184)
Sigma0 == 5 * DegScale

\* 2.355 (line 192), in thousandths
Fwhm == 2355

\* line 179: np.where((theta_deg >= theta_deg[max_idx] - window_deg) &
\*                    (theta_deg <= theta_deg[max_idx] + window_deg))[0],
\* the indices in ascending order
WindowIndices(theta_deg, max_idx) ==
    LET inside(i) == /\ theta_deg[i] >= theta_deg[max_idx] - WindowDeg
                     /\ theta_deg[i] <= theta_deg[max_idx] + WindowDeg
    IN  SelectSeq([i \in DOMAIN theta_deg |-> i], inside)

\* TooFewSamples with a fault: the fit is attempted from 3 samples on
TooFewSamplesLow(indices) == Len(indices) < 3

\* line 180: if len(indices) < 5: return None
TooFewSamples(indices) == Len(indices) < MinFitSamples

\* theta_deg[indices], pattern_norm[indices]
Take(s, indices) == [k \in DOMAIN indices |-> s[indices[k]]]

\* line 184: p0 = [np.max(ydata), theta_deg[max_idx], 5.0, np.min(ydata)]
InitialGuess(theta_deg, max_idx, ydata) ==
    [a |-> NpMax(ydata), mu |-> theta_deg[max_idx], sigma |-> Sigma0,
     offset |-> NpMin(ydata)]

\* curve_fit's check_finite (its default): ValueError when xdata or ydata
\* holds a nan or an inf
NotAllFinite(xdata, ydata) ==
    \/ \E k \in DOMAIN xdata : ~IsFinite(xdata[k])
    \/ \E k \in DOMAIN ydata : ~IsFinite(ydata[k])

\* OutsideMask with a fault: the samples at mu - 20 and mu + 20 degrees count
\* as outside
OutsideMaskInclusive(theta_deg, mu) ==
    [i \in DOMAIN theta_deg |->
        theta_deg[i] <= mu - WindowDeg \/ theta_deg[i] >= mu + WindowDeg]

\* line 193: outside_mask = (theta_deg < mu - window_deg) | (theta_deg > mu + window_deg)
OutsideMask(theta_deg, mu) ==
    [i \in DOMAIN theta_deg |->
        theta_deg[i] < mu - WindowDeg \/ theta_deg[i] > mu + WindowDeg]

\* line 194: side_lobes = pattern_norm[outside_mask], the samples whose mask
\* is true, in ascending order of index (the selected indices are bound once)
Masked(s, mask) ==
    LET selected(i) == mask[i]
    IN  CHOOSE side \in
            {[k \in DOMAIN kept |-> s[kept[k]]] :
                kept \in {SelectSeq([i \in DOMAIN s |-> i], selected)}} : TRUE

\* line 195: np.max(side_lobes) if len(side_lobes) > 0 else 0
SideLobeLevel(side_lobes) ==
    IF Len(side_lobes) > 0 THEN NpMax(side_lobes) ELSE 0

\* An optional value of the metrics dictionary: {} is None, {v} is the value v
None == {}
Some(v) == {v}

\* FitMetrics with a fault: side_lobe_level is None when no sample lies
\* outside the window
FitMetricsNoneWhenEmpty(fitted, side_lobes) ==
    [main_lobe_magnitude |-> fitted.a + fitted.offset,
     main_lobe_direction |-> fitted.mu,
     angular_width |-> Some(Rnd(Fwhm * fitted.sigma, Scale)),
     side_lobe_level |->
        IF Len(side_lobes) > 0 THEN Some(NpMax(side_lobes)) ELSE None]

\* lines 189-201: the dictionary built from the fitted parameters and the
\* side lobes of line 194
FitMetrics(fitted, side_lobes) ==
    [main_lobe_magnitude |-> fitted.a + fitted.offset,
     main_lobe_direction |-> fitted.mu,
     angular_width |-> Some(Rnd(Fwhm * fitted.sigma, Scale)),
     side_lobe_level |-> Some(SideLobeLevel(side_lobes))]

\* FallbackMetrics with a fault: the direction is the index of the peak, not
\* its angle
FallbackMetricsIndex(theta_deg, pattern_norm) ==
    [main_lobe_magnitude |-> NpMax(pattern_norm),
     main_lobe_direction |-> NpArgmax(pattern_norm) - 1,
     angular_width |-> None,
     side_lobe_level |-> None]

\* lines 280-285: the dictionary built when calculate_gaussian_metrics
\* returned None
FallbackMetrics(theta_deg, pattern_norm) ==
    [main_lobe_magnitude |-> NpMax(pattern_norm),
     main_lobe_direction |-> theta_deg[NpArgmax(pattern_norm)],
     angular_width |-> None,
     side_lobe_level |-> None]

\* ---------------------------------------------------------------- inputs

\* theta = np.linspace(0, np.pi, 360) (line 257)
NumSamples == 360

\* the largest number of function evaluations the solver of curve_fit makes
\* before it gives up (scipy: maxfev, by default 200 * (n + 1), n = 4)
MaxFev == 2

\* the antenna models of the sidebar the dispatch of lines 261-273 tells
\* apart: the two dipole models, the linear array, and one of the others
DipoleModels == {"Dipole Antenna", "Monopole Antenna"}
Models == DipoleModels \cup {"Linear Array", "Horn Antenna"}

\* param_values: length in 1/Scale m, freq in MHz, n elements, d in 1/Scale
\* wavelengths, phase in 1/DegScale degrees.  A parameter the model does not
\* have keeps the default of param_values.get (lines 262-270).
Defaults == [length |-> 500, freq |-> 900, n |-> 8, d |-> 500, phase |-> 0]

ParamsOf(model, lengths, freqs, ns, ds, phases) ==
    IF model \in DipoleModels
    THEN {[Defaults EXCEPT !.length = l, !.freq = f] : l \in lengths, f \in freqs}
    ELSE IF model = "Linear Array"
    THEN {[Defaults EXCEPT !.n = n, !.d = d, !.phase = ph] :
              n \in ns, d \in ds, ph \in phases}
    ELSE {Defaults}

\* parameter values inside the domains of the widgets (lines 131-146); the
\* phase of -0.10 degree is the one at which sin(psi/2) meets -epsilon at
\* broadside
ValidLengths == {500, 1000}
ValidFreqs == {300, 900}
ValidNs == {2, 8}
ValidDs == {500, 1000}
ValidPhases == {0 - 10, 0, 90 * DegScale}

\* values outside them, as a caller of the functions can pass
AnyLengths == ValidLengths \cup {0}
AnyFreqs == ValidFreqs \cup {0, 0 - 900}
AnyNs == ValidNs \cup {0}
AnyDs == ValidDs \cup {0}

\* the angle domains: the application's (line 257), a coarse 10-sample one,
\* one of 10-degree steps, and a narrow one of 7 samples over [0, 30] degrees
Grids ==
    {[stop |-> Pi, num |-> NumSamples], [stop |-> Pi, num |-> 10],
     [stop |-> Pi, num |-> 19], [stop |-> Pi \div 6, num |-> 7]}

\* frequency <= 0, length <= 0, N < 1 or spacing <= 0
ValidParams(model, pv) ==
    IF model \in DipoleModels THEN pv.freq > 0 /\ pv.length > 0
    ELSE IF model = "Linear Array" THEN pv.n >= 1 /\ pv.d > 0
    ELSE TRUE

\* ----------------------------------------------------------------- state

VARIABLES
    antenna_model,  \* the selected model (line 248)
    param_values,   \* the parameter values (lines 252-255)
    theta,          \* the angle samples in radians (line 257)
    theta_deg,      \* the same in degrees (line 258)
    raw,            \* the formula's samples before the first np.nan_to_num
    returned,       \* pattern as assigned by lines 266 / 271 / 273
    sanitized,      \* pattern after line 274
    pattern,        \* the variable pattern
    max_idx,        \* calculate_gaussian_metrics: max_idx (0 before line 177)
    indices,        \* calculate_gaussian_metrics: indices
    p0,             \* << >> or << the initial guess of line 184 >>
    nfev,           \* function evaluations of the running solver
    popt,           \* << >> or << the fitted parameters >>
    side_lobes,     \* calculate_gaussian_metrics: side_lobes (line 194)
    fit,            \* "none", "running", "ok", "RuntimeError"
    metrics,        \* << >> (None) or << the metrics dictionary >>
    exc,            \* "none" or the exception that ended the run
    pc              \* the position of the run

vars == <<antenna_model, param_values, theta, theta_deg, raw, returned,
          sanitized, pattern, max_idx, indices, p0, nfev, popt, side_lobes,
          fit, metrics, exc, pc>>

InitWith(lengths, freqs, ns, ds) ==
    /\ antenna_model \in Models
    /\ param_values \in ParamsOf(antenna_model, lengths, freqs, ns, ds, ValidPhases)
    /\ \E g \in Grids :
          /\ theta = Linspace(0, g.stop, g.num)
          /\ theta_deg = [i \in 1..g.num |-> Rad2Deg(Linspace(0, g.stop, g.num)[i])]
    /\ raw = << >>
    /\ returned = << >>
    /\ sanitized = << >>
    /\ pattern = << >>
    /\ max_idx = 0
    /\ indices = << >>
    /\ p0 = << >>
    /\ nfev = 0
    /\ popt = << >>
    /\ side_lobes = << >>
    /\ fit = "none"
    /\ metrics = << >>
    /\ exc = "none"
    /\ pc = "pattern"

\* every call with parameters inside the widgets' domains, over each of the
\* angle domains
Init == InitWith(ValidLengths, ValidFreqs, ValidNs, ValidDs)

\* every call of the pipeline, parameters outside the widgets' domains included
InitAny == InitWith(AnyLengths, AnyFreqs, AnyNs, AnyDs)

\* --------------------------------------------------------------- actions

\* the samples the formula of the selected model evaluates to, before any
\* np.nan_to_num (lines 160-162, 166-169, 273)
RawPattern(model, pv, th) ==
    IF model \in DipoleModels
    THEN LET wavelength == Rnd(300 * Scale, pv.freq)
             normalized_length == Rnd(pv.length * Scale, wavelength)
         IN  DipoleFormula(normalized_length, th)
    ELSE IF model = "Linear Array"
    THEN UlaFormula(pv.n, pv.d, pv.phase, th)
    ELSE GenericFormula(th)

\* lines 261-273: the value assigned to pattern
DispatchPattern(model, pv, th) ==
    IF model \in DipoleModels
    THEN LET wavelength == Rnd(300 * Scale, pv.freq)
             normalized_length == Rnd(pv.length * Scale, wavelength)
         IN  dipole_pattern(normalized_length, th)
    ELSE IF model = "Linear Array"
    THEN ula_array_pattern(pv.n, pv.d, pv.phase, th)
    ELSE GenericFormula(th)

\* line 264: wavelength = 3e8 / (freq * 1e6) divides Python floats, which
\* raises ZeroDivisionError when freq is 0
DivisionByZero(model, pv) == model \in DipoleModels /\ pv.freq = 0

\* lines 261-273
ComputePattern ==
    /\ pc = "pattern"
    /\ IF DivisionByZero(antenna_model, param_values)
       THEN /\ exc' = "ZeroDivisionError"
            /\ pc' = "crashed"
            /\ UNCHANGED <<raw, returned, pattern>>
       ELSE /\ raw' = RawPattern(antenna_model, param_values, theta)
            /\ returned' = DispatchPattern(antenna_model, param_values, theta)
            /\ pattern' = returned'
            /\ pc' = "sanitize"
            /\ exc' = exc
    /\ UNCHANGED <<antenna_model, param_values, theta, theta_deg, sanitized,
                   max_idx, indices, p0, nfev, popt, side_lobes, fit, metrics>>

\* line 274: pattern = np.nan_to_num(pattern)
Sanitize ==
    /\ pc = "sanitize"
    /\ pattern' = NanToNumSeq(pattern)
    /\ sanitized' = pattern'
    /\ pc' = "normalize"
    /\ UNCHANGED <<antenna_model, param_values, theta, theta_deg, raw, returned,
                   max_idx, indices, p0, nfev, popt, side_lobes, fit, metrics,
                   exc>>

\* line 275: pattern /= np.max(pattern)
NormalizePattern(pat) == DivSeq(pat, NpMax(pat))

Normalize ==
    /\ pc = "normalize"
    /\ pattern' = NormalizePattern(pattern)
    /\ pc' = "metrics"
    /\ UNCHANGED <<antenna_model, param_values, theta, theta_deg, raw, returned,
                   sanitized, max_idx, indices, p0, nfev, popt, side_lobes, fit,
                   metrics, exc>>

\* lines 177-184 of calculate_gaussian_metrics, called at line 278: the peak,
\* the window, the early return None, the initial guess
LocateWindow ==
    /\ pc = "metrics"
    /\ max_idx' = NpArgmax(pattern)
    /\ indices' = WindowIndices(theta_deg, max_idx')
    /\ IF TooFewSamples(indices')
       THEN /\ metrics' = << >>
            /\ pc' = "returned"
            /\ p0' = p0
       ELSE /\ p0' = <<InitialGuess(theta_deg, max_idx', Take(pattern, indices'))>>
            /\ pc' = "fit"
            /\ metrics' = metrics
    /\ UNCHANGED <<antenna_model, param_values, theta, theta_deg, raw, returned,
                   sanitized, pattern, nfev, popt, side_lobes, fit, exc>>

\* line 186, entering curve_fit: it checks its data first and raises
\* ValueError, which line 187 does not catch, on a nan or an inf
CurveFit ==
    /\ pc = "fit"
    /\ IF NotAllFinite(Take(theta_deg, indices), Take(pattern, indices))
       THEN /\ exc' = "ValueError"
            /\ pc' = "crashed"
            /\ fit' = fit
       ELSE /\ fit' = "running"
            /\ pc' = "solve"
            /\ exc' = exc
    /\ UNCHANGED <<antenna_model, param_values, theta, theta_deg, raw, returned,
                   sanitized, pattern, max_idx, indices, p0, nfev, popt, side_lobes,
                   metrics>>

\* the parameters a converged fit can return: the centre within 10 degrees
\* of the initial guess, two widths, two splits of the peak into a + offset
FitResults(guess) ==
    {[a |-> am[1], mu |-> guess.mu + dm, sigma |-> sg, offset |-> am[2]] :
        dm \in {0 - 10 * DegScale, 0, 10 * DegScale},
        sg \in {3 * DegScale, 8 * DegScale},
        am \in {<<guess.a - guess.offset, guess.offset>>, <<guess.a, 0>>}}

\* NextFev with a fault: the count starts over before it reaches the bound
NextFevReset(n) == IF n + 1 >= MaxFev THEN 0 ELSE n + 1

\* one more evaluation of the model function
NextFev(n) == n + 1

\* one step of the solver inside curve_fit (lines 185-188): it converges and
\* returns popt, or fails (RuntimeError, caught: return None), or evaluates
\* the function once more; at maxfev evaluations it fails
SolveStep ==
    /\ pc = "solve"
    /\ \E outcome \in {"converged", "failed", "continue"} :
          IF nfev >= MaxFev \/ outcome = "failed"
          THEN /\ fit' = "RuntimeError"
               /\ metrics' = << >>
               /\ pc' = "returned"
               /\ UNCHANGED <<nfev, popt>>
          ELSE IF outcome = "converged"
          THEN /\ \E fitted \in FitResults(p0[1]) : popt' = <<fitted>>
               /\ fit' = "ok"
               /\ pc' = "derive"
               /\ UNCHANGED <<nfev, metrics>>
          ELSE /\ nfev' = NextFev(nfev)
               /\ UNCHANGED <<popt, fit, metrics, pc>>
    /\ UNCHANGED <<antenna_model, param_values, theta, theta_deg, raw, returned,
                   sanitized, pattern, max_idx, indices, p0, side_lobes, exc>>

\* lines 189-201: the metrics of the fitted Gaussian, returned to line 278
Derive ==
    /\ pc = "derive"
    /\ side_lobes' = Masked(pattern, OutsideMask(theta_deg, popt[1].mu))
    /\ metrics' = <<FitMetrics(popt[1], side_lobes')>>
    /\ pc' = "returned"
    /\ UNCHANGED <<antenna_model, param_values, theta, theta_deg, raw, returned,
                   sanitized, pattern, max_idx, indices, p0, nfev, popt, fit, exc>>

\* lines 279-285: if not metrics: the fallback dictionary
Fallback ==
    /\ pc = "returned"
    /\ metrics' = IF metrics = << >>
                  THEN <<FallbackMetrics(theta_deg, pattern)>>
                  ELSE metrics
    /\ pc' = "done"
    /\ UNCHANGED <<antenna_model, param_values, theta, theta_deg, raw, returned,
                   sanitized, pattern, max_idx, indices, p0, nfev, popt, side_lobes,
                   fit, exc>>

Next ==
    \/ ComputePattern
    \/ Sanitize
    \/ Normalize
    \/ LocateWindow
    \/ CurveFit
    \/ SolveStep
    \/ Derive
    \/ Fallback

\* calls with valid parameters
Spec == Init /\ [][Next]_vars

\* calls with any parameters
SpecAny == InitAny /\ [][Next]_vars

\* the interpreter runs calculate_gaussian_metrics and lines 278-285 to their
\* end: a step of the extraction that can be taken is taken
SpecFair ==
    /\ Init
    /\ [][Next]_vars
    /\ WF_vars(LocateWindow)
    /\ WF_vars(CurveFit)
    /\ WF_vars(SolveStep)
    /\ WF_vars(Derive)
    /\ WF_vars(Fallback)

\* ---------------------------------------------------------------- claims

\* the run is past calculate_gaussian_metrics' window (lines 177-181)
PastWindow == pc \in {"fit", "solve", "derive", "returned", "done"} \/ exc = "ValueError"

\* the run is past line 274
PastSanitize == Len(sanitized) > 0

\* the run is past line 275
PastNormalize == PastSanitize /\ pc # "normalize"

\* the dictionary handed to the layout code (line 287 on)
Handed == metrics[1]

\* the metrics are the fallback ones: both optional fields are None
IsFallback(m) == m.angular_width = None /\ m.side_lobe_level = None

\* the samples strictly outside [mu - 20, mu + 20] degrees
OutsideSet(mu) ==
    {i \in DOMAIN theta_deg :
        theta_deg[i] < mu - WindowDeg \/ theta_deg[i] > mu + WindowDeg}

\* the samples within 20 degrees of the peak sample
NearPeak ==
    {i \in DOMAIN theta_deg : Abs(theta_deg[i] - theta_deg[max_idx]) <= WindowDeg}

\* the application's angle domain (line 257)
AppGrid == Len(theta) = NumSamples /\ theta[1] = 0 /\ theta[Len(theta)] = Pi

C2_OptionalFieldsTogether ==
    pc = "done" =>
        /\ Handed.angular_width = None <=> Handed.side_lobe_level = None
        /\ Handed.angular_width = None <=> fit # "ok"
        /\ fit # "ok" <=> (TooFewSamples(indices) \/ fit = "RuntimeError")

C2_Witness ==
    /\ pc = "done"
    /\ fit = "RuntimeError"
    /\ IsFallback(Handed)

C6_TooFewNoFit ==
    (PastWindow /\ Cardinality(NearPeak) < 5) =>
        /\ fit = "none"
        /\ nfev = 0
        /\ popt = << >>
        /\ pc \in {"returned", "done"}
        /\ pc = "done" => IsFallback(Handed)

C6_Witness ==
    /\ pc = "done"
    /\ Cardinality(NearPeak) < 5
    /\ IsFallback(Handed)

\* C7: after a successful fit with centre mu, side_lobe_level is the largest
\* gain among the samples strictly below mu - 20 or strictly above mu + 20
\* degrees, and 0 when there is no such sample.
C7_SideLobeLevel ==
    (pc = "done" /\ fit = "ok") =>
        LET out == OutsideSet(popt[1].mu)
        IN  /\ Handed.side_lobe_level # None
            /\ \A v \in Handed.side_lobe_level :
                  IF out = {} THEN v = 0
                  ELSE /\ \E i \in out : pattern[i] = v
                       /\ \A i \in out : pattern[i] <= v

C7_Witness ==
    /\ pc = "done"
    /\ fit = "ok"
    /\ OutsideSet(popt[1].mu) = {}
    /\ Handed.side_lobe_level = {0}

\* C8: the fallback always yields a dictionary: the magnitude is the largest
\* gain of the normalized pattern, the direction is the angle of the peak
\* sample located at line 177, and both optional fields are absent.
C8_FallbackMetrics ==
    /\ pc = "done" => Len(metrics) = 1
    /\ (pc = "done" /\ fit # "ok") =>
          /\ \A i \in DOMAIN pattern : pattern[i] <= Handed.main_lobe_magnitude
          /\ pattern[max_idx] = Handed.main_lobe_magnitude
          /\ Handed.main_lobe_direction = theta_deg[max_idx]
          /\ IsFallback(Handed)

C8_Witness ==
    /\ pc = "done"
    /\ fit # "ok"
    /\ max_idx > 1
    /\ Handed.main_lobe_direction = theta_deg[max_idx]

\* C9: metric extraction terminates: the solver makes at most MaxFev
\* evaluations, and every run ends with the metrics of a completed fit or
\* with the fallback metrics.
C9_Terminates ==
    /\ [](nfev <= MaxFev)
    /\ (pc = "metrics") ~>
          (/\ pc = "done"
           /\ \/ fit = "ok" /\ ~IsFallback(Handed)
              \/ fit # "ok" /\ IsFallback(Handed))

C9_Witness ==
    /\ pc = "done"
    /\ fit = "RuntimeError"
    /\ nfev = MaxFev
    /\ IsFallback(Handed)

\* C10: over the application's 360 samples the window around every possible
\* peak index holds at least 5 samples, so the early return of line 181 is
\* never taken and fallback metrics come from a failed fit only.
C10_AppWindowNeverSmall ==
    AppGrid =>
        /\ pc = "metrics" =>
              \A m \in DOMAIN theta_deg :
                  ~TooFewSamples(WindowIndices(theta_deg, m))
        /\ PastWindow => ~TooFewSamples(indices)
        /\ (pc = "done" /\ IsFallback(Handed)) => fit = "RuntimeError"

C10_Witness ==
    /\ AppGrid
    /\ pc = "done"
    /\ IsFallback(Handed)
    /\ max_idx = 1

====
